---- MODULE Spec2Model ----
(***************************************************************************)
(* A model of scred's project layer (src/scred/project.py):                *)
(*   - RecordsDownloader: __init__, the _iter_records generator and the    *)
(*     fetch_records generator that posts one request per batch;           *)
(*   - RedcapProject: the metadata / efn / version properties with their   *)
(*     setters, and get_records.                                           *)
(* Python strings are modelled as sequences of one-character strings, so   *)
(* that ",".join is a real conversion; Python lists are sequences.         *)
(***************************************************************************)
EXTENDS Integers, Sequences, FiniteSets, TLC

\* ------------------------------------------------------------------ bounds
\* Longest id list handed to fetch_records.
MaxLen == 4
\* Largest chunksize handed to RecordsDownloader.__init__.
MaxChunk == 3
\* Cap on the batches one fetch_records call may dispatch: above the longest
\* partition a positive chunksize produces (MaxLen + 1 batches), so it cuts
\* only the endless batch sequences of a chunksize <= 0.
MaxRequests == MaxLen + 2

\* Record identifiers.
IdSet == {"A", "B"}
\* The id lists a caller may pass.
IdLists == UNION {[1..n -> IdSet] : n \in 0..MaxLen}
\* The chunk sizes a caller may pass to the constructor (nothing restricts them).
ChunkSizes == (0 - 1)..MaxChunk

\* ---------------------------------------------------------------- helpers
Min(a, b) == IF a <= b THEN a ELSE b
Max(a, b) == IF a >= b THEN a ELSE b

\* Python's s[:n] : n >= 0 counts from the front, n < 0 leaves out the last -n.
PrefixLen(s, n) == IF n >= 0 THEN Min(n, Len(s)) ELSE Max(Len(s) + n, 0)

\* (a slip: chunk[-n :], the last n elements)
SliceFromEnd(s, n) == SubSeq(s, Len(s) - PrefixLen(s, n) + 1, Len(s))
\* chunk[: n]  (a new list)
SlicePrefix(s, n) == SubSeq(s, 1, PrefixLen(s, n))

\* what is left of a list after  del s[: n]
DelPrefix(s, n) == SubSeq(s, PrefixLen(s, n) + 1, Len(s))

\* ------------------------------------------------------------ the state
VARIABLES
    dl_pc,          \* position of the downloader / of the fetch_records generator
    chunksize,      \* RecordsDownloader.chunksize
    heap,           \* the list objects: "records" is the caller's, "copy" the deepcopy
    chunk,          \* _iter_records' local `chunk`: the object it refers to
    iter_pc,        \* position of the _iter_records generator
    passed,         \* ghost: the value of the caller's list when fetch_records was called
    emitted,        \* ghost: the batches _iter_records has yielded, in order
    requests,       \* the requests posted to the requester, in order
    inflight,       \* the requests posted and not yet answered
    outcomes,       \* ghost: how each posted request ended, in order
    succeeded,      \* what fetch_records has yielded to its consumer, in order
    to_retry,       \* fetch_records' local `to_retry`
    _metadata,      \* RedcapProject._metadata
    _efn,           \* RedcapProject._efn
    _version,       \* RedcapProject._version
    calls,          \* ghost: remote getter calls per property since its last assignment
    assigned,       \* ghost: per property, the value last assigned through its setter
    lastRead,       \* ghost: per property, how the latest read since then ended
    posted,         \* what get_records last handed to post, with its arguments
    built,          \* ghost: the descriptor list the efn setter last got, and what it replaced
    lookup,         \* ghost: the latest cbnames / any_endorsed call and how it ended
    textractor,     \* the Textractor, once made: its idfield and _bounded
    pulled          \* ghost: the latest pull_desired call: what it saw, how it ended

dl_vars == <<dl_pc, chunksize, heap, chunk, iter_pc, passed, emitted,
             requests, inflight, outcomes, succeeded, to_retry>>

pr_vars == <<_metadata, _efn, _version, calls, assigned, lastRead>>

ext_vars == <<built, lookup>>

tx_vars == <<textractor, pulled>>

vars == <<dl_vars, pr_vars, posted, ext_vars, tx_vars>>

\* The parsed JSON the server answers a batch with: the records of those ids.
Payload(batch) == [records_of |-> batch]

\* (a slip: chunk = records, the caller's own list object)
AliasRecords(ref) == ref
\* copy.deepcopy(records): a new list object, equal to the argument.
DeepCopy(ref) == "copy"

\* ---------------------------------------------------------------- Init
DlInit ==
    /\ dl_pc = "none"
    /\ chunksize = 0
    /\ heap = [r \in {"records", "copy"} |-> <<>>]
    /\ chunk = "records"
    /\ iter_pc = "start"
    /\ passed = <<>>
    /\ emitted = <<>>
    /\ requests = <<>>
    /\ inflight = {}
    /\ outcomes = <<>>
    /\ succeeded = <<>>
    /\ to_retry = <<>>

\* ---- values of the cached attributes of a RedcapProject
\* The attribute does not exist on the object.
Unset == [tag |-> "unset", val |-> <<>>]
\* The attribute is None.
None == [tag |-> "none", val |-> <<>>]
\* The attribute holds v.
Some(v) == [tag |-> "set", val |-> <<v>>]

Props == {"metadata", "efn", "version"}

\* RedcapProject.__init__: `self._metadata: DataDictionary` and the two
\* lines after it are annotations without a value; they create no attribute,
\* and the `metadata` argument is not used.
PrInit ==
    /\ _metadata = Unset
    /\ _efn = Unset
    /\ _version = Unset
    /\ calls = [p \in Props |-> 0]
    /\ assigned = [p \in Props |-> <<>>]
    /\ lastRead = [p \in Props |-> [kind |-> "never", val |-> <<>>]]

ExtInit ==
    /\ built = [input |-> <<>>, rebuilt |-> "no"]
    /\ lookup = <<>>

\* No Textractor has been made and pull_desired was never called.
TxInit ==
    /\ textractor = <<>>
    /\ pulled = <<>>

Init == DlInit /\ PrInit /\ posted = <<>> /\ ExtInit /\ TxInit

\* ------------------------------------------------- RecordsDownloader
\* RecordsDownloader(requester, chunksize=k): stores k as given.
Construct(k) ==
    /\ UNCHANGED <<pr_vars, posted, ext_vars, tx_vars>>
    /\ dl_pc = "none"
    /\ dl_pc' = "idle"
    /\ chunksize' = k
    /\ UNCHANGED <<heap, chunk, iter_pc, passed, emitted, requests, inflight,
                   outcomes, succeeded, to_retry>>

\* fetch_records(ids) is called and its generator started: to_retry = list(),
\* and _iter_records(ids) makes its private copy.
StartFetch(ids) ==
    /\ UNCHANGED <<pr_vars, posted, ext_vars, tx_vars>>
    /\ dl_pc \in {"idle", "done", "raised"}
    /\ dl_pc' = "iter"
    /\ LET ref == DeepCopy("records")
       IN  /\ chunk' = ref
           /\ heap' = [[heap EXCEPT !["records"] = ids] EXCEPT ![ref] = ids]
    /\ iter_pc' = "loop"
    /\ passed' = ids
    /\ emitted' = <<>>
    /\ requests' = <<>>
    /\ inflight' = {}
    /\ outcomes' = <<>>
    /\ succeeded' = <<>>
    /\ to_retry' = <<>>
    /\ UNCHANGED chunksize

\* The list `chunk` refers to when _iter_records reaches its while test:
\* resuming after a yield inside the loop first runs  del chunk[: chunksize].
AtWhile == IF iter_pc = "yielded"
           THEN DelPrefix(heap[chunk], chunksize)
           ELSE heap[chunk]

\* (a slip: the next batch is posted without awaiting the answer to the last)
ReadyWithoutAwaiting == dl_pc \in {"iter", "posted"}
\* requester.post(...).json() is a blocking call: the for loop of
\* fetch_records takes its next batch only once the call has returned or
\* raised into the except clause.
ForLoopReady == dl_pc = "iter"

\* (a slip: the loop test lets a chunk one short of chunksize through)
LoopContinuesOffByOne(c, k) == Len(c) + 1 >= k
\* while len(chunk) >= self.chunksize
LoopContinues(c, k) == Len(c) >= k

\* The for loop of fetch_records asks _iter_records for its next batch and
\* posts it: requester.post(static_payload, records=batch).
Dispatch ==
    /\ UNCHANGED <<pr_vars, posted, ext_vars, tx_vars>>
    /\ ForLoopReady
    /\ iter_pc \in {"loop", "yielded"}
    /\ Len(emitted) < MaxRequests
    /\ LET c == AtWhile
           batch == IF LoopContinues(c, chunksize) THEN SlicePrefix(c, chunksize) ELSE c
       IN  /\ heap' = [heap EXCEPT ![chunk] = c]
           /\ iter_pc' = IF LoopContinues(c, chunksize) THEN "yielded" ELSE "last"
           /\ emitted' = Append(emitted, batch)
           /\ requests' = Append(requests, [content |-> "record", records |-> batch])
           /\ inflight' = inflight \cup {Len(requests) + 1}
    /\ dl_pc' = "posted"
    /\ UNCHANGED <<chunksize, chunk, passed, outcomes, succeeded, to_retry>>

\* The request is answered 2xx with a JSON body: .json() is yielded.
RespondOk ==
    /\ UNCHANGED <<pr_vars, posted, ext_vars, tx_vars>>
    /\ dl_pc = "posted"
    /\ dl_pc' = "iter"
    /\ inflight' = inflight \ {Len(requests)}
    /\ outcomes' = Append(outcomes, "ok")
    /\ succeeded' = Append(succeeded, Payload(requests[Len(requests)].records))
    /\ UNCHANGED <<chunksize, heap, chunk, iter_pc, passed, emitted, requests, to_retry>>

\* (a slip: the except clause posts the failed batch again)
ResendFailed(reqs) == Append(reqs, reqs[Len(reqs)])
\* The requests posted once the except clause has run: it prints and appends
\* to to_retry, and posts nothing.
ExceptClause(reqs) == reqs

\* The request is answered non-2xx: post raises requests.HTTPError, which the
\* except clause catches; the batch is appended to to_retry.
RespondHTTPError ==
    /\ UNCHANGED <<pr_vars, posted, ext_vars, tx_vars>>
    /\ dl_pc = "posted"
    /\ dl_pc' = "iter"
    /\ inflight' = inflight \ {Len(requests)}
    /\ outcomes' = Append(outcomes, "http_error")
    /\ to_retry' = Append(to_retry, requests[Len(requests)].records)
    /\ requests' = ExceptClause(requests)
    /\ UNCHANGED <<chunksize, heap, chunk, iter_pc, passed, emitted, succeeded>>

\* The request is answered 2xx with a body that is not JSON: .json() raises a
\* decoding error, which is no requests.HTTPError, so the except clause does
\* not catch it and it leaves fetch_records.
RespondMalformed ==
    /\ UNCHANGED <<pr_vars, posted, ext_vars, tx_vars>>
    /\ dl_pc = "posted"
    /\ dl_pc' = "raised"
    /\ inflight' = inflight \ {Len(requests)}
    /\ outcomes' = Append(outcomes, "malformed")
    /\ UNCHANGED <<chunksize, heap, chunk, iter_pc, passed, emitted, requests,
                   succeeded, to_retry>>

\* _iter_records is exhausted after its last yield; the for loop ends and
\* fetch_records returns (to_retry goes out of scope with it).
Finish ==
    /\ UNCHANGED <<pr_vars, posted, ext_vars, tx_vars>>
    /\ dl_pc = "iter"
    /\ iter_pc = "last"
    /\ dl_pc' = "done"
    /\ iter_pc' = "exhausted"
    /\ UNCHANGED <<chunksize, heap, chunk, passed, emitted, requests, inflight,
                   outcomes, succeeded, to_retry>>

Next ==
    \/ \E k \in ChunkSizes : Construct(k)
    \/ \E ids \in IdLists : StartFetch(ids)
    \/ Dispatch
    \/ RespondOk
    \/ RespondHTTPError
    \/ RespondMalformed
    \/ Finish

Spec == Init /\ [][Next]_vars

\* ----------------------------------------------------- RedcapProject
\* Largest number of remote getter calls followed for one property between
\* two assignments (the code makes at most one).
MaxCalls == 2
\* Longest descriptor list handed to the efn setter.
MaxDescs == 2
\* Longest collection handed to get_records as records or fields.
MaxItems == 2

\* What requester.get_metadata() may return (raw data dictionaries).
RemoteMeta == {"m1", "m2"}
\* DataDictionary(raw): the wrapper around a raw data dictionary.
DataDictionary(raw) == [dd |-> raw]
\* What a caller may assign to project.metadata.
MetadataInputs ==
    {[type |-> "None", v |-> <<>>]}
    \cup {[type |-> "DataDictionary", v |-> <<DataDictionary(m)>>] : m \in RemoteMeta \cup {"fixture"}}
    \cup {[type |-> "other", v |-> <<[raw |-> m]>>] : m \in RemoteMeta}

\* What requester.get_version() may return.
RemoteVersions == {"9.1.0", "10.0.1"}
\* What a caller may assign to project.version (nothing is checked).
VersionInputs ==
    {[type |-> "None", v |-> <<>>]}
    \cup {[type |-> "str", v |-> <<s>>] : s \in RemoteVersions \cup {"", "fixture"}}

\* Field descriptors as the remote service lists them.
Descriptor(o, c, e) ==
    [original_field_name |-> o, choice_value |-> c, export_field_name |-> e]
Descriptors ==
    { Descriptor("cb", "1", "cb___1"), Descriptor("cb", "2", "cb___2"),
      Descriptor("txt", "", "txt"), Descriptor("yn", "1", "yn___1") }
DescLists == UNION {[1..n -> Descriptors] : n \in 0..MaxDescs}

\* (a slip: the export names are put in front, so they come out reversed)
BuildReversed(value) ==
    LET differing == SelectSeq(value,
                        LAMBDA d : d.original_field_name # d.export_field_name)
        names == {differing[i].original_field_name : i \in DOMAIN differing}
        relevant(nm) == SelectSeq(differing, LAMBDA d : d.original_field_name = nm)
    IN  [nm \in names |->
            [i \in 1..Len(relevant(nm)) |->
                relevant(nm)[Len(relevant(nm)) + 1 - i].export_field_name]]
\* (a slip: the names are taken from all descriptors, not from the differing)
BuildUnfiltered(value) ==
    LET differing == SelectSeq(value,
                        LAMBDA d : d.original_field_name # d.export_field_name)
        names == {value[i].original_field_name : i \in DOMAIN value}
        relevant(nm) == SelectSeq(differing, LAMBDA d : d.original_field_name = nm)
    IN  [nm \in names |->
            [i \in 1..Len(relevant(nm)) |-> relevant(nm)[i].export_field_name]]
\* The efn setter's computation: original_field_name -> list of the
\* export_field_names that differ from it, for the names that have any.
Build(value) ==
    LET differing == SelectSeq(value,
                        LAMBDA d : d.original_field_name # d.export_field_name)
        names == {differing[i].original_field_name : i \in DOMAIN differing}
        relevant(nm) == SelectSeq(differing, LAMBDA d : d.original_field_name = nm)
    IN  [nm \in names |->
            [i \in 1..Len(relevant(nm)) |-> relevant(nm)[i].export_field_name]]

\* (a slip: the setter keeps filling the dict it already holds)
KeptDict(old) == old
\* `mapping = dict()`: the setter starts from an empty dict, whatever it held.
NewDict(old) == <<>>

\* The dict the project holds before the setter runs (empty if it holds none).
OldMapping == IF _efn.tag = "set" THEN _efn.val[1] ELSE <<>>

\* `self._efn = mapping`: the entries computed from value, put into the dict
\* the setter started from.
Stored(value) == Some(Build(value) @@ NewDict(OldMapping))

\* ghost: the setter has run on value; did it replace a map, built from the
\* same list or from another one, and did that map have a key that value
\* gives no entry for ("dropped")?
BuiltBy(value) ==
    [input |-> <<value>>,
     rebuilt |-> IF built.input = <<>> THEN "no"
                 ELSE IF built.input = <<value>> THEN "same"
                 ELSE IF \E k \in DOMAIN OldMapping : k \notin DOMAIN Build(value)
                      THEN "dropped" ELSE "other"]

\* (a slip: the cached value is never used, the remote is asked on every read)
CacheIgnored(x) == TRUE
\* `self._x is cast(T, None)`: cast returns its argument, so this is `is None`.
IsNone(x) == x.tag = "none"

Returned(x) == [kind |-> "value", val |-> x.val]
Raised(e) == [kind |-> e, val |-> <<>>]

\* Reading project.metadata, the remote answering raw if it is asked.
ReadMetadata(raw) ==
    /\ IF _metadata.tag = "unset"
       THEN /\ lastRead' = [lastRead EXCEPT !["metadata"] = Raised("AttributeError")]
            /\ UNCHANGED <<_metadata, calls>>
       ELSE IF IsNone(_metadata)
       THEN /\ calls["metadata"] < MaxCalls
            /\ _metadata' = Some(DataDictionary(raw))
            /\ calls' = [calls EXCEPT !["metadata"] = @ + 1]
            /\ lastRead' = [lastRead EXCEPT !["metadata"] = Returned(_metadata')]
       ELSE /\ lastRead' = [lastRead EXCEPT !["metadata"] = Returned(_metadata)]
            /\ UNCHANGED <<_metadata, calls>>
    /\ UNCHANGED <<_efn, _version, assigned, dl_vars, tx_vars, posted, ext_vars>>

\* project.metadata = value
SetMetadata(value) ==
    /\ IF value.type \notin {"None", "DataDictionary"}
       THEN \* TypeError: nothing is assigned
            UNCHANGED <<_metadata, calls, assigned, lastRead>>
       ELSE LET new == IF value.type = "None" THEN None ELSE Some(value.v[1])
            IN  /\ _metadata' = new
                /\ calls' = [calls EXCEPT !["metadata"] = 0]
                /\ assigned' = [assigned EXCEPT !["metadata"] = <<new>>]
                /\ lastRead' = [lastRead EXCEPT !["metadata"] = Raised("never")]
    /\ UNCHANGED <<_efn, _version, dl_vars, tx_vars, posted, ext_vars>>

\* Reading project.efn, the remote answering some descs if it is asked; the
\* answer goes through the efn setter.
ReadEfn ==
    /\ IF _efn.tag = "unset"
       THEN /\ lastRead' = [lastRead EXCEPT !["efn"] = Raised("AttributeError")]
            /\ UNCHANGED <<_efn, calls, built>>
       ELSE IF IsNone(_efn)
       THEN /\ calls["efn"] < MaxCalls
            /\ \E descs \in DescLists :
                  /\ _efn' = Stored(descs)
                  /\ built' = BuiltBy(descs)
            /\ calls' = [calls EXCEPT !["efn"] = @ + 1]
            /\ lastRead' = [lastRead EXCEPT !["efn"] = Returned(_efn')]
       ELSE /\ lastRead' = [lastRead EXCEPT !["efn"] = Returned(_efn)]
            /\ UNCHANGED <<_efn, calls, built>>
    /\ UNCHANGED <<_metadata, _version, assigned, dl_vars, tx_vars, posted, lookup>>

\* The caller is single-threaded: it makes a call once the one before has
\* handed over its result or its exception.
NoCallPending == lookup = <<>>

\* project.efn = value  (a descriptor list)
SetEfn(value) ==
    /\ NoCallPending
    /\ _efn' = Stored(value)
    /\ built' = BuiltBy(value)
    /\ UNCHANGED lookup
    /\ calls' = [calls EXCEPT !["efn"] = 0]
    /\ assigned' = [assigned EXCEPT !["efn"] = <<_efn'>>]
    /\ lastRead' = [lastRead EXCEPT !["efn"] = Raised("never")]
    /\ UNCHANGED <<_metadata, _version, dl_vars, tx_vars, posted>>

\* Reading project.version, the remote answering ver if it is asked.
ReadVersion(ver) ==
    /\ IF _version.tag = "unset"
       THEN /\ lastRead' = [lastRead EXCEPT !["version"] = Raised("AttributeError")]
            /\ UNCHANGED <<_version, calls>>
       ELSE IF IsNone(_version)
       THEN /\ calls["version"] < MaxCalls
            /\ _version' = Some(ver)
            /\ calls' = [calls EXCEPT !["version"] = @ + 1]
            /\ lastRead' = [lastRead EXCEPT !["version"] = Returned(_version')]
       ELSE /\ lastRead' = [lastRead EXCEPT !["version"] = Returned(_version)]
            /\ UNCHANGED <<_version, calls>>
    /\ UNCHANGED <<_metadata, _efn, assigned, dl_vars, tx_vars, posted, ext_vars>>

\* project.version = value
SetVersion(value) ==
    /\ LET new == IF value.type = "None" THEN None ELSE Some(value.v[1])
       IN  /\ _version' = new
           /\ assigned' = [assigned EXCEPT !["version"] = <<new>>]
    /\ calls' = [calls EXCEPT !["version"] = 0]
    /\ lastRead' = [lastRead EXCEPT !["version"] = Raised("never")]
    /\ UNCHANGED <<_metadata, _efn, dl_vars, tx_vars, posted, ext_vars>>

NextProject ==
    \/ \E raw \in RemoteMeta : ReadMetadata(raw)
    \/ \E value \in MetadataInputs : SetMetadata(value)
    \/ ReadEfn
    \/ \E value \in DescLists : SetEfn(value)
    \/ \E ver \in RemoteVersions : ReadVersion(ver)
    \/ \E value \in VersionInputs : SetVersion(value)

SpecProject == Init /\ [][NextProject]_vars

\* ------------------------------- RedcapProject.cbnames / any_endorsed
\* The field names a caller may ask about ("zz" is no field of the project).
FieldNames == {"cb", "txt", "yn", "zz"}
\* The export field names a record carries.
ExportNames == {"cb___1", "cb___2", "yn___1"}
\* The values a record may hold: the ints 0 and 1, the strings "" and "1"
\* (a str is given by its length, which decides its truth).
Values == {[type |-> t, v |-> n] : t \in {"int", "str"}, n \in {0, 1}}
Records == [ExportNames -> Values]

\* (a slip: a missing name falls back to exporting as itself)
LookupOrSelf(mapping, cbvar) ==
    [kind |-> "value",
     val |-> <<IF cbvar \in DOMAIN mapping THEN mapping[cbvar] ELSE <<cbvar>>>>]
\* self.efn[cbvar] on the dict: the entry, or KeyError.
Subscript(mapping, cbvar) ==
    IF cbvar \in DOMAIN mapping
    THEN [kind |-> "value", val |-> <<mapping[cbvar]>>]
    ELSE Raised("KeyError")

\* record.rcvalue(var): the record's value at that export name.
RcValue(record, var) == record[var]

\* Python truth of a record value: 0 and "" are false.
IsTruthy(value) == value.v # 0
\* isinstance(checked, int)
IsInt(value) == value.type = "int"

\* (a slip: `return False` inside the loop, so only the first name is looked at)
FirstOnly(record, exports) ==
    IF exports = <<>> THEN Returned(Some(FALSE))
    ELSE LET checked == RcValue(record, Head(exports))
         IN  IF IsTruthy(checked)
             THEN (IF IsInt(checked) THEN Returned(Some(TRUE))
                   ELSE Raised("AssertionError"))
             ELSE Returned(Some(FALSE))
\* (a slip: the isinstance check is left out)
RECURSIVE ScanUnchecked(_, _)
ScanUnchecked(record, exports) ==
    IF exports = <<>> THEN Returned(Some(FALSE))
    ELSE IF IsTruthy(RcValue(record, Head(exports)))
         THEN Returned(Some(TRUE))
         ELSE ScanUnchecked(record, Tail(exports))
\* The loop of any_endorsed over the export names, in order.
RECURSIVE ScanLoop(_, _)
ScanLoop(record, exports) ==
    IF exports = <<>> THEN Returned(Some(FALSE))
    ELSE LET checked == RcValue(record, Head(exports))
         IN  IF IsTruthy(checked)
             THEN (IF IsInt(checked) THEN Returned(Some(TRUE))
                   ELSE Raised("AssertionError"))
             ELSE ScanLoop(record, Tail(exports))
Scan(record, exports) == ScanLoop(record, exports)

\* What reading self.efn and subscripting it with cbvar gives, the project
\* holding the dict `mapping` when the subscript is evaluated.
CbnamesResult(cbvar) ==
    IF _efn.tag = "unset" THEN Raised("AttributeError")
    ELSE Subscript(_efn'.val[1], cbvar)

\* Reading self.efn inside cbnames: the getter (see ReadEfn).
EfnGetter ==
    IF _efn.tag # "unset" /\ IsNone(_efn)
    THEN /\ calls["efn"] < MaxCalls
         /\ \E descs \in DescLists :
               /\ _efn' = Stored(descs)
               /\ built' = BuiltBy(descs)
         /\ calls' = [calls EXCEPT !["efn"] = @ + 1]
    ELSE UNCHANGED <<_efn, built, calls>>

\* project.cbnames(cbvar)
Cbnames(cbvar) ==
    /\ NoCallPending
    /\ EfnGetter
    /\ lookup' = <<[op |-> "cbnames", field |-> cbvar, record |-> <<>>,
                    before |-> _efn, result |-> CbnamesResult(cbvar)]>>
    /\ UNCHANGED <<_metadata, _version, assigned, lastRead, dl_vars, tx_vars, posted>>

\* project.any_endorsed(record, checkbox)
AnyEndorsed(record, checkbox) ==
    /\ NoCallPending
    /\ EfnGetter
    /\ LET exports == CbnamesResult(checkbox)
       IN  lookup' = <<[op |-> "any_endorsed", field |-> checkbox,
                        record |-> <<record>>, before |-> _efn,
                        result |-> IF exports.kind = "value"
                                   THEN Scan(record, exports.val[1])
                                   ELSE exports]>>
    /\ UNCHANGED <<_metadata, _version, assigned, lastRead, dl_vars, tx_vars, posted>>

\* The caller has taken the result (or caught the exception) of the call.
Return ==
    /\ lookup # <<>>
    /\ lookup' = <<>>
    /\ UNCHANGED <<dl_vars, tx_vars, pr_vars, posted, built>>

NextEfn ==
    \/ \E value \in DescLists : SetEfn(value)
    \/ Return
    \/ \E cbvar \in FieldNames : Cbnames(cbvar)
    \/ \E record \in Records, checkbox \in FieldNames : AnyEndorsed(record, checkbox)

SpecEfn == Init /\ [][NextEfn]_vars

\* ------------------------------------------- RedcapProject.get_records
\* "record": a Python str is the sequence of its characters.
RecordStr == <<"r", "e", "c", "o", "r", "d">>
\* The strings a collection handed to get_records may hold.
Items == {<<"A">>, <<"B">>}
\* What a caller may pass as records or as fields: None, a bare str (v holds
\* the one string), a list of strs (v holds its elements).
ArgValues ==
    {[type |-> "None", v |-> <<>>]}
    \cup {[type |-> "str", v |-> <<s>>] : s \in {<<>>, <<"A">>, <<"A", ",", "B">>}}
    \cup {[type |-> "list", v |-> l] : l \in UNION {[1..n -> Items] : n \in 0..MaxItems}}
\* The **kwargs a caller may add.
KwargValues == {<<>>, "forms" :> <<"A">>}

\* A dict of one item: iterating it (as join does) gives its keys, so v holds
\* the key and vals the value stored under it.
Dict(key, value) == [type |-> "dict", v |-> <<key>>, vals |-> <<value>>]

\* Python truth of an argument: None, "", the empty list and the empty dict
\* are false.
Truthy(arg) ==
    CASE arg.type = "None" -> FALSE
      [] arg.type = "str" -> Len(arg.v[1]) > 0
      [] arg.type = "list" -> Len(arg.v) > 0
      [] arg.type = "dict" -> Len(arg.v) > 0

\* (a slip: the strings are joined with nothing between them)
RECURSIVE JoinNoSeparator(_)
JoinNoSeparator(items) ==
    IF items = <<>> THEN <<>> ELSE Head(items) \o JoinNoSeparator(Tail(items))
\* ",".join(items)
RECURSIVE Join(_)
Join(items) ==
    IF items = <<>> THEN <<>>
    ELSE IF Len(items) = 1 THEN items[1]
    ELSE items[1] \o <<",">> \o Join(Tail(items))

\* payload.update(key=",".join(arg)) when arg is true and no str
Update(key, arg) ==
    IF Truthy(arg) /\ arg.type # "str" THEN key :> Join(arg.v) ELSE <<>>

\* payload = {"content": "record"} after its two conditional updates
RequestPayload(records, fields) ==
    Update("fields", fields) @@ Update("records", records) @@ ("content" :> RecordStr)

\* What get_records hands to post: self.post(**payload, **kwargs)
Post(records, fields, kwargs) ==
    <<[records |-> records, fields |-> fields, kwargs |-> kwargs,
       payload |-> RequestPayload(records, fields) @@ kwargs]>>

\* get_records(records, fields, **kwargs): builds the payload and posts it.
GetRecords(records, fields, kwargs) ==
    /\ posted' = Post(records, fields, kwargs)
    /\ UNCHANGED <<dl_vars, tx_vars, pr_vars, ext_vars>>

NextGetRecords ==
    \E records \in ArgValues, fields \in ArgValues, kwargs \in KwargValues :
        GetRecords(records, fields, kwargs)

SpecGetRecords == Init /\ [][NextGetRecords]_vars

\* ---------------------------------------------------------- Textractor
\* The field names of the data dictionaries, as strs.
F_a == <<"a">>
F_ab == <<"a", "b">>
F_b == <<"b">>
F_n == <<"n">>
\* metadata["field_type"]: the type each raw data dictionary declares for
\* each of its fields (its index).
FieldType(raw) ==
    CASE raw = "m1" -> (F_b :> "text") @@ (F_ab :> "text") @@ (F_a :> "text")
                         @@ (F_n :> "yesno")
      [] raw = "m2" -> (F_b :> "text") @@ (F_n :> "radio")
      [] OTHER -> (F_n :> "yesno")

\* What a caller may pass as idfield.
IdFields == {<<"i", "d">>, F_a}
\* What a caller may assign to textractor.bounded: a set or a list of strs
\* (v holds the elements), or a bare str (v holds the one string).
BoundedInputs ==
    {[type |-> t, v |-> l] : t \in {"set", "list"},
                             l \in {<<>>, <<F_ab>>, <<F_b, F_n>>, <<F_a, F_a>>}}
    \cup {[type |-> "str", v |-> <<F_ab>>]}

\* set(value)
SetOf(seq) == {seq[i] : i \in 1..Len(seq)}

\* Code points of the characters in use, in increasing order.
Alphabet == <<"a", "b", "d", "i", "n">>
Ord(c) == CHOOSE i \in 1..Len(Alphabet) : Alphabet[i] = c
\* s < t for two strs: by the first character that differs, a proper prefix
\* being the smaller.
RECURSIVE StrLess(_, _)
StrLess(s, t) ==
    IF t = <<>> THEN FALSE
    ELSE IF s = <<>> THEN TRUE
    ELSE IF Head(s) = Head(t) THEN StrLess(Tail(s), Tail(t))
    ELSE Ord(Head(s)) < Ord(Head(t))

\* sorted(S) for a set of strs
RECURSIVE Sorted(_)
Sorted(S) ==
    IF S = {} THEN <<>>
    ELSE LET least == CHOOSE x \in S : \A y \in S \ {x} : StrLess(x, y)
         IN  <<least>> \o Sorted(S \ {least})

\* Textractor.textfields, on a data dictionary
TextFields(dd) ==
    {f \in DOMAIN FieldType(dd.dd) : FieldType(dd.dd)[f] = "text"}

\* Textractor.desired
Desired(dd, bounded) == Sorted(TextFields(dd) \ bounded)

\* Textractor(project, idfield)
NewTextractor(idfield) ==
    /\ textractor = <<>>
    /\ textractor' = <<[idfield |-> idfield, _bounded |-> {}]>>
    /\ UNCHANGED <<dl_vars, pr_vars, posted, ext_vars, pulled>>

\* textractor.bounded = value
SetBounded(value) ==
    /\ textractor # <<>>
    /\ textractor' = <<[textractor[1] EXCEPT !._bounded =
                          IF value.type = "str" THEN {value.v[1]}
                          ELSE SetOf(value.v)]>>
    /\ UNCHANGED <<dl_vars, pr_vars, posted, ext_vars, pulled>>

\* textractor.pull_desired(**kwargs), the remote answering raw if the
\* metadata getter asks it. The data posted for is reshaped into the list
\* returned; nothing else is stored.
PullDesired(kwargs, raw) ==
    /\ textractor # <<>>
    /\ IF _metadata.tag = "unset"
       THEN \* project.metadata raises AttributeError: nothing is posted
            /\ lastRead' = [lastRead EXCEPT !["metadata"] = Raised("AttributeError")]
            /\ pulled' = <<[idfield |-> textractor[1].idfield,
                            bounded |-> textractor[1]._bounded,
                            textfields |-> {}, result |-> "AttributeError"]>>
            /\ UNCHANGED <<_metadata, calls, posted>>
       ELSE /\ IF IsNone(_metadata)
               THEN /\ calls["metadata"] < MaxCalls
                    /\ _metadata' = Some(DataDictionary(raw))
                    /\ calls' = [calls EXCEPT !["metadata"] = @ + 1]
               ELSE UNCHANGED <<_metadata, calls>>
            /\ lastRead' = [lastRead EXCEPT !["metadata"] = Returned(_metadata')]
            /\ LET dd == _metadata'.val[1]
                   fields == Dict(<<"f", "i", "e", "l", "d", "s">>,
                                  <<textractor[1].idfield>>
                                     \o Desired(dd, textractor[1]._bounded))
               IN  /\ posted' = Post([type |-> "None", v |-> <<>>], fields, kwargs)
                   /\ pulled' = <<[idfield |-> textractor[1].idfield,
                                   bounded |-> textractor[1]._bounded,
                                   textfields |-> TextFields(dd),
                                   result |-> "posted"]>>
    /\ UNCHANGED <<_efn, _version, assigned, dl_vars, ext_vars, textractor>>

NextTextract ==
    \/ \E idfield \in IdFields : NewTextractor(idfield)
    \/ \E value \in BoundedInputs : SetBounded(value)
    \/ \E value \in MetadataInputs : SetMetadata(value)
    \/ \E kwargs \in KwargValues, raw \in RemoteMeta : PullDesired(kwargs, raw)

SpecTextract == Init /\ [][NextTextract]_vars

\* =================================================================
\* Properties of the downloader, checked under Spec.
\* =================================================================
\* The i-th consecutive slice of length k of ids (k > 0), by position.
ExpectedBatch(ids, k, i) == SubSeq(ids, (i - 1) * k + 1, Min(i * k, Len(ids)))

CeilDiv(n, k) == (n + k - 1) \div k

RECURSIVE Concat(_)
Concat(ss) == IF ss = <<>> THEN <<>> ELSE Head(ss) \o Concat(Tail(ss))

IsPrefixOf(s, t) == Len(s) <= Len(t) /\ SubSeq(t, 1, Len(s)) = s

\* The payloads of the requests answered "ok", in request order.
RECURSIVE OkPayloadsFrom(_)
OkPayloadsFrom(i) ==
    IF i > Len(outcomes) THEN <<>>
    ELSE (IF outcomes[i] = "ok" THEN <<Payload(ExpectedBatch(passed, chunksize, i))>>
          ELSE <<>>) \o OkPayloadsFrom(i + 1)

\* The fetch_records call has ended: it returned, or an exception left it.
Ended == dl_pc \in {"done", "raised"}

\* C1: once a fetch_records call on a non-empty id list (chunksize > 0) has
\* ended, every batch it dispatched is accounted for exactly once, among the
\* payloads yielded or in to_retry:
\* len(succeeded) + len(failed) = number of dispatched batches.
C1_PartitionExhaustive ==
    (Ended /\ chunksize > 0 /\ passed # <<>>) =>
        Len(succeeded) + Len(to_retry) = Len(emitted)

\* C2: on a non-empty id list (chunksize > 0) no transport failure leaves
\* fetch_records (it never ends by raising); when it has ended every batch of
\* the partition was dispatched and every batch answered without failure
\* has had its payload delivered.
C2_FailureIsolation ==
    (chunksize > 0 /\ passed # <<>>) =>
        /\ dl_pc # "raised"
        /\ Ended => /\ Concat(emitted) = passed
                    /\ succeeded = OkPayloadsFrom(1)

\* C3: for a non-empty id list and chunksize k > 0, the batches emitted so
\* far concatenate to a prefix of the ids, and once _iter_records is exhausted
\* they concatenate to the ids exactly; every batch but the last has exactly
\* k elements and the last has at most k.
C3_PartitionReproducesIds ==
    (dl_pc \notin {"none", "idle"} /\ chunksize > 0 /\ passed # <<>>) =>
        /\ IsPrefixOf(Concat(emitted), passed)
        /\ dl_pc = "done" => Concat(emitted) = passed
        /\ \A i \in 1..Len(emitted) :
              /\ Len(emitted[i]) <= chunksize
              /\ (i < Len(emitted) \/ iter_pc = "yielded") => Len(emitted[i]) = chunksize

\* C3 witness: a list of three ids cut with chunksize 2 into a full
\* batch and a shorter last one, consumed to the end.
C3_Witness ==
    /\ dl_pc = "done" /\ chunksize = 2 /\ Len(passed) = 3
    /\ Len(emitted) = 2 /\ Len(emitted[2]) = 1

\* C4: for a non-empty id list and chunksize k > 0, _iter_records emits
\* exactly ceil(len(ids) / k) batches.
C4_BatchCountIsCeil ==
    (dl_pc = "done" /\ chunksize > 0 /\ passed # <<>>) =>
        Len(emitted) = CeilDiv(Len(passed), chunksize)

\* C5: the caller's list keeps the elements it had when fetch_records was
\* called, in the same order, however far the batches have been consumed.
C5_CallerListUnchanged ==
    dl_pc \notin {"none", "idle"} => heap["records"] = passed

\* C5 witness: the private copy has been cut down by del while a batch had
\* failed, and the generator ran to its end.
C5_Witness ==
    /\ dl_pc = "done" /\ Len(passed) >= 3
    /\ heap[chunk] # passed
    /\ to_retry # <<>>

\* C6: at most one request is in flight; a request is posted only when all
\* earlier ones have been answered; requests are posted in partition order
\* (chunksize > 0); the payloads yielded are those of the batches answered
\* "ok", in batch order.
C6_SequentialInOrder ==
    /\ Cardinality(inflight) <= 1
    /\ inflight \subseteq {Len(requests)}
    /\ Len(outcomes) = Len(requests) - Cardinality(inflight)
    /\ requests = [i \in 1..Len(emitted) |-> [content |-> "record", records |-> emitted[i]]]
    /\ chunksize > 0 =>
          /\ \A i \in 1..Len(requests) :
                requests[i].records = ExpectedBatch(passed, chunksize, i)
          /\ succeeded = OkPayloadsFrom(1)

\* C6 witness: three requests posted, the second failed, the third in flight.
C6_Witness ==
    /\ dl_pc = "posted" /\ chunksize > 0
    /\ Len(requests) = 3 /\ inflight = {3}
    /\ outcomes = <<"ok", "http_error">>
    /\ Len(succeeded) = 1

\* C19: within one fetch_records call every batch taken from _iter_records
\* has been posted exactly once, whatever the answers were: the number of
\* requests equals the number of batches, a failure adds to to_retry and
\* posts nothing, and for chunksize > 0 the call that has returned posted
\* one request per batch of its id list, len(ids) // chunksize + 1 of them.
C19_OneRequestPerBatch ==
    dl_pc \notin {"none", "idle"} =>
        /\ Len(requests) = Len(emitted)
        /\ Len(to_retry) = Cardinality({i \in 1..Len(outcomes) : outcomes[i] = "http_error"})
        /\ Len(to_retry) <= Len(requests)
        /\ (dl_pc = "done" /\ chunksize > 0) =>
              Len(requests) = (Len(passed) \div chunksize) + 1

\* C19 witness: a call that has returned after its first two batches both
\* failed; three batches, three requests.
C19_Witness ==
    /\ dl_pc = "done" /\ chunksize > 0
    /\ Len(emitted) = 3 /\ Len(requests) = 3
    /\ outcomes[1] = "http_error" /\ outcomes[2] = "http_error"
    /\ Len(to_retry) = 2

\* C20: fetch_records on an empty id list with chunksize > 0 posts exactly
\* one request, whose records are the empty list: none before the first
\* dispatch, one from then on, and one when the call has returned.
C20_EmptyInputOneEmptyBatch ==
    (dl_pc \notin {"none", "idle"} /\ passed = <<>> /\ chunksize > 0) =>
        /\ Len(requests) <= 1
        /\ \A i \in 1..Len(requests) :
              requests[i] = [content |-> "record", records |-> <<>>]
        /\ (dl_pc # "iter" \/ iter_pc # "loop") => Len(requests) = 1
        /\ dl_pc = "done" => emitted = << <<>> >>

\* C20 witness: a call on the empty list that has returned, chunksize 1.
C20_Witness ==
    /\ dl_pc = "done" /\ passed = <<>> /\ chunksize = 1
    /\ Len(requests) = 1 /\ requests[1].records = <<>>
    /\ outcomes = <<"ok">>

\* C18: for every chunksize a RecordsDownloader can hold, _iter_records
\* ends after finitely many batches: every yield inside the loop is followed
\* by a del that shortens the chunk, so a call never takes more than
\* len(ids) + 1 batches.
C18_PartitionFinite ==
    dl_pc \notin {"none", "idle"} =>
        /\ iter_pc = "yielded" =>
              Len(DelPrefix(heap[chunk], chunksize)) < Len(heap[chunk])
        /\ Len(emitted) <= Len(passed) + 1

\* C10: no RecordsDownloader with chunksize <= 0 exists.
C10_ChunkSizePositive ==
    dl_pc # "none" => chunksize > 0

\* =================================================================
\* Properties of the cached properties, checked under SpecProject.
\* =================================================================
Field(p) == CASE p = "metadata" -> _metadata
              [] p = "efn" -> _efn
              [] p = "version" -> _version

\* C7: on a project no property of which was ever assigned, once a property
\* has been read its remote getter has been called exactly once, the result
\* is stored and it is what the latest read returned.
C7_LazyComputeOnce ==
    \A p \in Props :
        (assigned[p] = <<>> /\ lastRead[p].kind # "never") =>
            /\ calls[p] = 1
            /\ Field(p).tag = "set"
            /\ lastRead[p] = Returned(Field(p))

\* C8: while the value last assigned to metadata (resp. version) is a
\* DataDictionary (resp. a string), the property holds exactly that value,
\* every read since the assignment returned it, and no remote request for it
\* was made since the assignment.
C8_InjectionOverrides ==
    \A p \in {"metadata", "version"} :
        (assigned[p] # <<>> /\ assigned[p][1].tag = "set") =>
            /\ Field(p) = assigned[p][1]
            /\ calls[p] = 0
            /\ lastRead[p].kind # "never" => lastRead[p] = Returned(assigned[p][1])

\* C8 witness: a fixture DataDictionary and the empty version string were
\* assigned and each has been read back.
C8_Witness ==
    /\ assigned["metadata"] = <<Some(DataDictionary("fixture"))>>
    /\ lastRead["metadata"] = Returned(Some(DataDictionary("fixture")))
    /\ assigned["version"] = <<Some("")>>
    /\ lastRead["version"] = Returned(Some(""))

\* =================================================================
\* Properties of get_records, checked under SpecGetRecords.
\* =================================================================
\* C9: for records and for fields alike, a collection of several elements is
\* sent as its elements joined with commas under the argument's key, and a
\* (non-empty) bare string is sent as it is under that key.
C9_WireEncoding ==
    posted # <<>> =>
        \A key \in {"records", "fields"} :
            LET arg == posted[1][key]
                payload == posted[1].payload
            IN  /\ (arg.type = "list" /\ Len(arg.v) = 2) =>
                      /\ key \in DOMAIN payload
                      /\ payload[key] = arg.v[1] \o <<",">> \o arg.v[2]
                /\ (arg.type = "str" /\ arg.v[1] # <<>>) =>
                      /\ key \in DOMAIN payload
                      /\ payload[key] = arg.v[1]

\* =================================================================
\* Properties of the export-field map and its queries, checked under SpecEfn.
\* =================================================================
\* The export names a descriptor list gives a name: those of its descriptors
\* with that original name and another export name, in list order.
RECURSIVE ExpectedExports(_, _)
ExpectedExports(D, nm) ==
    IF D = <<>> THEN <<>>
    ELSE (IF Head(D).original_field_name = nm /\ Head(D).export_field_name # nm
          THEN <<Head(D).export_field_name>> ELSE <<>>)
         \o ExpectedExports(Tail(D), nm)

\* The names of a descriptor list that have a differing export name.
ExpectedKeys(D) ==
    {D[i].original_field_name :
        i \in {j \in DOMAIN D : D[j].original_field_name # D[j].export_field_name}}

\* C11: after the efn setter has run on a descriptor list, every key's entry
\* is exactly the export names of the descriptors with that original name
\* and a differing export name, in the order they occur in the list.
C11_EntriesInInputOrder ==
    (built.input # <<>> /\ _efn.tag = "set") =>
        \A key \in DOMAIN _efn.val[1] :
            _efn.val[1][key] = ExpectedExports(built.input[1], key)

\* C11 witness: built from the choices of one checkbox listed 2 before 1; the
\* entry keeps that order.
C11_Witness ==
    /\ built.input = <<<<Descriptor("cb", "2", "cb___2"), Descriptor("cb", "1", "cb___1")>>>>
    /\ _efn = Some("cb" :> <<"cb___2", "cb___1">>)

\* C12: after any sequence of builds every key of the map has a non-empty
\* entry, and a name none of whose descriptors has a differing export name
\* is no key.
C12_KeysHaveExports ==
    (built.input # <<>> /\ _efn.tag = "set") =>
        \A key \in DOMAIN _efn.val[1] :
            /\ Len(_efn.val[1][key]) > 0
            /\ \E i \in DOMAIN built.input[1] :
                  /\ built.input[1][i].original_field_name = key
                  /\ built.input[1][i].export_field_name # key

\* C12 witness: a second build, from a text field and a checkbox choice; only
\* the checkbox is a key.
C12_Witness ==
    /\ built.rebuilt # "no"
    /\ built.input = <<<<Descriptor("txt", "", "txt"), Descriptor("cb", "1", "cb___1")>>>>
    /\ DOMAIN _efn.val[1] = {"cb"}

\* C13: after the efn setter has run on a descriptor list D, however often
\* and whatever the map was before, the map is the one D alone gives: its
\* keys are the names with a differing export name in D, with D's entries.
C13_RebuildReplaces ==
    built.input # <<>> =>
        /\ _efn.tag = "set"
        /\ DOMAIN _efn.val[1] = ExpectedKeys(built.input[1])
        /\ \A key \in ExpectedKeys(built.input[1]) :
              _efn.val[1][key] = ExpectedExports(built.input[1], key)

\* C13 witness: a rebuild from a list that gives no entry for a key of the
\* map it replaces.
C13_Witness ==
    /\ built.rebuilt = "dropped"
    /\ built.input = <<<<Descriptor("yn", "1", "yn___1")>>>>
    /\ DOMAIN _efn.val[1] = {"yn"}

\* C13 second witness, for idempotence: a rebuild from the same list.
C13_WitnessSame ==
    /\ built.rebuilt = "same"
    /\ DOMAIN _efn.val[1] = {"cb", "yn"}

\* C14: cbnames on a name that has no entry in the map the project holds
\* ends with KeyError (the lookup error of the dict), never with a value, and
\* leaves the map as it was; the error also leaves any_endorsed.
C14_MissingNameRaises ==
    (lookup # <<>> /\ lookup[1].before.tag = "set"
       /\ lookup[1].field \notin DOMAIN lookup[1].before.val[1]) =>
        /\ lookup[1].result = Raised("KeyError")
        /\ _efn = lookup[1].before

\* C14 witness: cbnames("txt") on a map that has an entry for cb only.
C14_Witness ==
    /\ lookup # <<>>
    /\ lookup[1].op = "cbnames" /\ lookup[1].field = "txt"
    /\ lookup[1].before.tag = "set"
    /\ DOMAIN lookup[1].before.val[1] = {"cb"}
    /\ lookup[1].result.kind = "KeyError"

\* The values a record holds at the export names of the field asked about.
LookedAt ==
    LET exports == lookup[1].before.val[1][lookup[1].field]
    IN  [i \in DOMAIN exports |-> lookup[1].record[1][exports[i]]]

\* An any_endorsed call on a field that has an entry in the map.
EndorsedCall ==
    /\ lookup # <<>>
    /\ lookup[1].op = "any_endorsed"
    /\ lookup[1].before.tag = "set"
    /\ lookup[1].field \in DOMAIN lookup[1].before.val[1]

C16_NonIntegerRaises ==
    EndorsedCall =>
        LET vals == LookedAt
            res == lookup[1].result
            endorsed == {i \in DOMAIN vals : vals[i].v # 0}
        IN  endorsed # {} =>
               LET first == CHOOSE i \in endorsed : \A j \in endorsed : i <= j
               IN  /\ vals[first].type # "int" => res = Raised("AssertionError")
                   /\ res = Returned(Some(TRUE)) => vals[first].type = "int"

\* C16 witness: the string "1" at cb___1, the integer 1 at cb___2: the call
\* ends with the error.
C16_Witness ==
    /\ EndorsedCall
    /\ lookup[1].field = "cb"
    /\ lookup[1].before.val[1]["cb"] = <<"cb___1", "cb___2">>
    /\ lookup[1].record[1]["cb___1"] = [type |-> "str", v |-> 1]
    /\ lookup[1].record[1]["cb___2"] = [type |-> "int", v |-> 1]
    /\ lookup[1].result = Raised("AssertionError")

\* =================================================================
\* Properties of the Textractor, checked under SpecTextract.
\* =================================================================
\* The one sequence that lists the strs of S in increasing order.
InOrder(S) ==
    CHOOSE q \in [1..Cardinality(S) -> S] :
        /\ \A x \in S : \E i \in 1..Cardinality(S) : q[i] = x
        /\ \A i, j \in 1..Cardinality(S) : i < j => StrLess(q[i], q[j])

\* C17: the request a pull_desired call has posted carries a fields
\* parameter equal to the comma-joined list of idfield followed by the text
\* fields of the metadata that are not in bounded, in sorted order.
C17_FieldsParameter ==
    (pulled # <<>> /\ pulled[1].result = "posted") =>
        /\ "fields" \in DOMAIN posted[1].payload
        /\ posted[1].payload["fields"] =
              Join(<<pulled[1].idfield>>
                     \o InOrder(pulled[1].textfields \ pulled[1].bounded))
====
